---- MODULE Spec2Model ----
(***************************************************************************)
(* Model of the py7z command-line wrappers (py7z.py, py7z_ls.py,           *)
(* py7z_hash.py, common.py): the argparse option tables, the validators,   *)
(* the build_7z_command translators and the exec_7z handoff.               *)
(*                                                                         *)
(* Python strings are sequences of one-character strings, so that          *)
(* indexing, lower(), split() and f-string concatenation are computed.     *)
(* Python values carry their type in the field t: None, bool, int, str,    *)
(* list, tuple.                                                            *)
(***************************************************************************)
EXTENDS Integers, Sequences, FiniteSets, TLC

VARIABLES tool, debug, argv, pc, args, real_args, exec_calls, exec_argv, status

vars == <<tool, debug, argv, pc, args, real_args, exec_calls, exec_argv, status>>

--------------------------------------------------------------------------
(* Bounds of the explored inputs *)

MaxOpts == 1
MaxVerbose == 4
MaxFiles == 2
MaxSet == 2

--------------------------------------------------------------------------
(* Python values *)

None == [t |-> "None", v |-> <<>>]
PyBool(b) == [t |-> "bool", v |-> b]
PyInt(i) == [t |-> "int", v |-> i]
PyStr(s) == [t |-> "str", v |-> s]
PyList(l) == [t |-> "list", v |-> l]
PyTuple(l) == [t |-> "tuple", v |-> l]
Raise(e) == [t |-> "raise", v |-> e]

IsNone(x) == x.t = "None"
PyEq(a, b) == a.t = b.t /\ a.v = b.v
PyIn(x, S) == \E c \in S : PyEq(x, c)
Truthy(x) ==
    CASE x.t = "None" -> FALSE
      [] x.t = "bool" -> x.v
      [] x.t = "int" -> x.v # 0
      [] OTHER -> Len(x.v) > 0

Range(s) == {s[i] : i \in DOMAIN s}
Tail2(s, i) == SubSeq(s, i, Len(s))
HasPrefix(s, p) == Len(s) >= Len(p) /\ SubSeq(s, 1, Len(p)) = p

RECURSIVE SeqsUpTo(_, _)
SeqsUpTo(S, n) ==
    IF n = 0 THEN {<<>>}
    ELSE SeqsUpTo(S, n - 1) \cup {Append(s, x) : s \in SeqsUpTo(S, n - 1), x \in S}

--------------------------------------------------------------------------
(* str methods *)

LowerMap ==
    ("A" :> "a") @@ ("B" :> "b") @@ ("C" :> "c") @@ ("D" :> "d") @@ ("E" :> "e") @@
    ("F" :> "f") @@ ("G" :> "g") @@ ("H" :> "h") @@ ("I" :> "i") @@ ("J" :> "j") @@
    ("K" :> "k") @@ ("L" :> "l") @@ ("M" :> "m") @@ ("N" :> "n") @@ ("O" :> "o") @@
    ("P" :> "p") @@ ("Q" :> "q") @@ ("R" :> "r") @@ ("S" :> "s") @@ ("T" :> "t") @@
    ("U" :> "u") @@ ("V" :> "v") @@ ("W" :> "w") @@ ("X" :> "x") @@ ("Y" :> "y") @@
    ("Z" :> "z")

Lower(s) == [i \in DOMAIN s |-> IF s[i] \in DOMAIN LowerMap THEN LowerMap[s[i]] ELSE s[i]]

RECURSIVE Split(_, _)
Split(s, sep) ==
    IF \A i \in DOMAIN s : s[i] # sep THEN <<s>>
    ELSE LET i == CHOOSE k \in DOMAIN s : s[k] = sep /\ \A j \in 1..(k - 1) : s[j] # sep
         IN <<SubSeq(s, 1, i - 1)>> \o Split(Tail2(s, i + 1), sep)

Digits == <<"0", "1", "2", "3", "4", "5", "6", "7", "8", "9">>
IsDigit(c) == c \in Range(Digits)
DigitValue(c) == (CHOOSE k \in DOMAIN Digits : Digits[k] = c) - 1

RECURSIVE DigitsValue(_)
DigitsValue(s) ==
    IF s = <<>> THEN 0
    ELSE 10 * DigitsValue(SubSeq(s, 1, Len(s) - 1)) + DigitValue(s[Len(s)])

(* int(s): an optional sign and at least one decimal digit, else ValueError *)
IsIntLiteral(s) ==
    LET body == IF s # <<>> /\ s[1] \in {"+", "-"} THEN Tail(s) ELSE s
    IN body # <<>> /\ \A i \in DOMAIN body : IsDigit(body[i])
IntOf(s) ==
    IF s[1] = "-" THEN 0 - DigitsValue(Tail(s))
    ELSE IF s[1] = "+" THEN DigitsValue(Tail(s))
    ELSE DigitsValue(s)

(* str(i) for i >= 0, as used by the f-strings *)
RECURSIVE IntToStr(_)
IntToStr(i) ==
    IF i < 10 THEN <<Digits[i + 1]>>
    ELSE IntToStr(i \div 10) \o <<Digits[(i % 10) + 1]>>

--------------------------------------------------------------------------
(* Module constants of py7z.py *)

ARCHIVE_FORMATS ==
    {<<"7", "z">>, <<"x", "z">>, <<"b", "z", "i", "p", "2">>, <<"g", "z", "i", "p">>,
     <<"t", "a", "r">>, <<"z", "i", "p">>, <<"w", "i", "m">>}
COMPRESSION_LEVELS == {<<"0">>, <<"1">>, <<"3">>, <<"5">>, <<"7">>, <<"9">>}
COMPRESSION_METHODS ==
    {<<"c", "o", "p", "y">>, <<"d", "e", "f", "l", "a", "t", "e">>,
     <<"d", "e", "f", "l", "a", "t", "e", "6", "4">>, <<"b", "z", "i", "p", "2">>,
     <<"l", "z", "m", "a">>, <<"l", "z", "m", "a", "2">>, <<"p", "p", "m", "d">>}

sAccess == <<"a", "c", "c", "e", "s", "s">>
sCreation == <<"c", "r", "e", "a", "t", "i", "o", "n">>
sModified == <<"m", "o", "d", "i", "f", "i", "e", "d">>
TIMESTAMPS_LOOKUP == (sAccess :> "a") @@ (sCreation :> "c") @@ (sModified :> "m")

CONSOLE_CHARSETS == {<<"u", "t", "f", "-", "8">>, <<"w", "i", "n">>, <<"d", "o", "s">>}
LISTFILE_CHARSETS ==
    {<<"u", "t", "f", "-", "8">>, <<"u", "t", "f", "-", "1", "6", "l", "e">>,
     <<"u", "t", "f", "-", "1", "6", "b", "e">>, <<"w", "i", "n">>, <<"d", "o", "s">>}

sYes == <<"y", "e", "s">>
sSkipExisting == <<"s", "k", "i", "p", "-", "e", "x", "i", "s", "t", "i", "n", "g">>
sRenameExtracted ==
    <<"r", "e", "n", "a", "m", "e", "-", "e", "x", "t", "r", "a", "c", "t", "e", "d">>
sRenameExisting ==
    <<"r", "e", "n", "a", "m", "e", "-", "e", "x", "i", "s", "t", "i", "n", "g">>
OVERWRITE_MODE_LOOKUP ==
    (sYes :> "a") @@ (sSkipExisting :> "s") @@ (sRenameExtracted :> "u") @@
    (sRenameExisting :> "t")

--------------------------------------------------------------------------
(* Validators of py7z.py: each returns a Python value or Raise("ValueError") *)

_generic_size(s) ==
    IF /\ Len(s) >= 2
       /\ \A i \in 1..(Len(s) - 1) : IsDigit(s[i])
       /\ Lower(<<s[Len(s)]>>)[1] \in {"b", "k", "m", "g", "t"}
    THEN PyStr(s)
    ELSE Raise("ValueError")

thread_count(s0) ==
    LET s == Lower(s0)
    IN IF s \in {<<"o", "f", "f">>, <<"o", "n">>} THEN PyStr(s)
       ELSE IF ~IsIntLiteral(s) THEN Raise("ValueError")
       ELSE IF IntOf(s) < 0 THEN Raise("ValueError")
       ELSE PyStr(s)

(* tuple(ts) lists the set ts in its iteration order; order is the *)
(* iteration order of this run, a sequence listing every possible member *)
TupleOfSet(ts, order) ==
    LET idx == {i \in DOMAIN order : order[i] \in ts}
        RECURSIVE Pick(_)
        Pick(I) == IF I = {} THEN <<>>
                   ELSE LET m == CHOOSE i \in I : \A j \in I : i <= j
                        IN <<order[m]>> \o Pick(I \ {m})
    IN Pick(idx)

timestamps(s, order) ==
    LET ts == Range(Split(Lower(s), ","))
    IN IF \E t \in ts : t \notin DOMAIN TIMESTAMPS_LOOKUP THEN Raise("ValueError")
       ELSE PyTuple(TupleOfSet(ts, order))

solid_block_size(s0) ==
    LET s == Lower(s0)
    IN IF s = <<"n", "o", "n", "e">> THEN PyStr(<<"o", "f", "f">>)
       ELSE IF s = <<"s", "o", "l", "i", "d">> THEN PyStr(<<"o", "n">>)
       ELSE _generic_size(s)

verbosity_level(c) == IF c < 3 THEN c ELSE 3

_on_off(b) == IF b THEN <<"o", "n">> ELSE <<"o", "f", "f">>

--------------------------------------------------------------------------
(* py7z.py: the command builder *)

get_operation(a) ==
    IF Truthy(a.operation_add) THEN PyStr(<<"a">>)
    ELSE IF Truthy(a.operation_extract) THEN PyStr(<<"x">>)
    ELSE IF Truthy(a.operation_list) THEN PyStr(<<"l">>)
    ELSE Raise("ValueError")


_make_inclusion_pattern_always_bang(pattern) ==
    IF pattern = <<>> THEN Raise("IndexError")
    ELSE PyStr(<<"!">> \o pattern)
_make_inclusion_pattern(pattern) ==
    IF pattern = <<>> THEN Raise("IndexError")
    ELSE IF pattern[1] # "@" THEN PyStr(<<"!">> \o pattern)
    ELSE PyStr(pattern)

(* re.fullmatch(r"(r[0-])?", recurse) *)
RecurseRegexMatches(recurse) ==
    \/ recurse = <<>>
    \/ Len(recurse) = 2 /\ recurse[1] = "r" /\ recurse[2] \in {"0", "-"}

(* dbg is __debug__: the assert statements run unless python is started with -O *)
_make_inclusion_arg(pattern, recurse, include_flag, dbg) ==
    IF dbg /\ include_flag \notin {"i", "x"} THEN Raise("AssertionError")
    ELSE IF dbg /\ ~RecurseRegexMatches(recurse) THEN Raise("AssertionError")
    ELSE LET p == _make_inclusion_pattern(pattern)
         IN IF p.t = "raise" THEN p
            ELSE PyStr(<<"-", include_flag>> \o recurse \o p.v)

(* real_args.extend(_make_inclusion_arg(p, recurse, flag) for p in patterns) *)
RECURSIVE ExtendInclusion(_, _, _, _)
ExtendInclusion(patterns, recurse, include_flag, dbg) ==
    IF patterns = <<>> THEN PyList(<<>>)
    ELSE LET h == _make_inclusion_arg(Head(patterns), recurse, include_flag, dbg)
             r == ExtendInclusion(Tail(patterns), recurse, include_flag, dbg)
         IN IF h.t = "raise" THEN h
            ELSE IF r.t = "raise" THEN r
            ELSE PyList(<<h.v>> \o r.v)

Flag_archive_format(a) ==
    IF ~IsNone(a.archive_format) THEN <<(<<"-", "t">> \o a.archive_format.v)>> ELSE <<>>
Flag_compression_method(a) ==
    IF ~IsNone(a.compression_method)
    THEN <<(<<"-", "m", "m", "=">> \o a.compression_method.v)>> ELSE <<>>
Flag_compression_level(a) ==
    IF ~IsNone(a.compression_level)
    THEN <<(<<"-", "m", "x", "=">> \o a.compression_level.v)>> ELSE <<>>
Flag_num_threads(a) ==
    IF ~IsNone(a.num_threads)
    THEN <<(<<"-", "m", "m", "t", "=">> \o a.num_threads.v)>> ELSE <<>>
Flag_store_timestamps(a) ==
    IF ~IsNone(a.store_timestamps)
    THEN [i \in DOMAIN a.store_timestamps.v |->
            <<"-", "m", "t", TIMESTAMPS_LOOKUP[a.store_timestamps.v[i]], "=", "o", "n">>]
    ELSE <<>>
Flag_compress_header(a) ==
    IF ~IsNone(a.compress_header)
    THEN <<(<<"-", "m", "h", "c", "=">> \o _on_off(Truthy(a.compress_header)))>> ELSE <<>>
Flag_encrypt_header(a) ==
    IF ~IsNone(a.encrypt_header)
    THEN <<(<<"-", "m", "h", "e", "=">> \o _on_off(Truthy(a.encrypt_header)))>> ELSE <<>>
Flag_solid_block_size(a) ==
    IF ~IsNone(a.solid_block_size)
    THEN <<(<<"-", "m", "s", "=">> \o a.solid_block_size.v)>> ELSE <<>>
Flag_delete_after_compression(a) ==
    IF PyEq(a.delete_after_compression, PyBool(TRUE)) THEN <<(<<"-", "s", "d", "e", "l">>)>>
    ELSE <<>>
Flag_read_from_stdin(a) ==
    IF PyEq(a.read_from_stdin, PyBool(TRUE)) THEN <<(<<"-", "s", "i">>)>> ELSE <<>>
Flag_extract_to_stdout(a) ==
    IF PyEq(a.extract_to_stdout, PyBool(TRUE)) THEN <<(<<"-", "s", "o">>)>> ELSE <<>>
Flag_verbose(a) ==
    IF ~IsNone(a.verbose) THEN <<(<<"-", "b", "b">> \o IntToStr(a.verbose.v))>> ELSE <<>>
Flag_store_symlinks_as_links(a) ==
    IF PyEq(a.store_symlinks_as_links, PyBool(TRUE)) THEN <<(<<"-", "s", "n", "l">>)>>
    ELSE <<>>
Flag_output_directory(a) ==
    IF ~IsNone(a.output_directory) THEN <<(<<"-", "o">> \o a.output_directory.v)>> ELSE <<>>
Flag_recurse_untested_none(a) ==
    <<(IF Truthy(a.recurse) THEN <<"-", "r">> ELSE <<"-", "r", "-">>)>>
Flag_recurse(a) ==
    IF ~IsNone(a.recurse)
    THEN <<(IF Truthy(a.recurse) THEN <<"-", "r">> ELSE <<"-", "r", "-">>)>> ELSE <<>>
Flag_include(a, dbg) ==
    IF ~IsNone(a.include) THEN ExtendInclusion(a.include.v, <<>>, "i", dbg) ELSE PyList(<<>>)
Flag_include_recursive(a, dbg) ==
    IF ~IsNone(a.include_recursive)
    THEN ExtendInclusion(a.include_recursive.v, <<"r">>, "i", dbg) ELSE PyList(<<>>)
Flag_exclude(a, dbg) ==
    IF ~IsNone(a.exclude) THEN ExtendInclusion(a.exclude.v, <<>>, "x", dbg) ELSE PyList(<<>>)
Flag_exclude_recursive(a, dbg) ==
    IF ~IsNone(a.exclude_recursive)
    THEN ExtendInclusion(a.exclude_recursive.v, <<"r">>, "x", dbg) ELSE PyList(<<>>)
Flag_ignore_archive_name(a) ==
    IF PyEq(a.ignore_archive_name, PyBool(TRUE)) THEN <<(<<"-", "a", "n">>)>> ELSE <<>>
Flag_enable_wildcards(a) ==
    IF PyEq(a.enable_wildcards, PyBool(FALSE)) THEN <<(<<"-", "s", "p", "d">>)>> ELSE <<>>
Flag_fail_on_bad_file(a) ==
    IF PyEq(a.fail_on_bad_file, PyBool(TRUE)) THEN <<(<<"-", "s", "s", "e">>)>> ELSE <<>>
Flag_overwrite_mode_with_scc(a) ==
    (IF ~IsNone(a.overwrite_mode)
     THEN <<(<<"-", "a", "o", OVERWRITE_MODE_LOOKUP[a.overwrite_mode.v]>>)>> ELSE <<>>)
    \o (IF ~IsNone(a.console_charset)
        THEN <<(<<"-", "s", "c", "c">> \o a.console_charset.v)>> ELSE <<>>)
Flag_overwrite_mode(a) ==
    IF ~IsNone(a.overwrite_mode)
    THEN <<(<<"-", "a", "o", OVERWRITE_MODE_LOOKUP[a.overwrite_mode.v]>>)>> ELSE <<>>
Flag_show_progress_falsy(a) ==
    IF ~Truthy(a.show_progress) THEN <<(<<"-", "b", "d">>)>> ELSE <<>>
Flag_show_progress(a) ==
    IF PyEq(a.show_progress, PyBool(FALSE)) THEN <<(<<"-", "b", "d">>)>> ELSE <<>>
Flag_assume_yes(a) ==
    IF PyEq(a.assume_yes, PyBool(TRUE)) THEN <<(<<"-", "y">>)>> ELSE <<>>
Positional_archive(a) == <<a.archive.v>>
Positional_files(a) == IF ~IsNone(a.files) THEN a.files.v ELSE <<>>


RECURSIVE Chain_prepend(_)
Chain_prepend(steps) ==
    IF steps = <<>> THEN PyList(<<>>)
    ELSE LET h == Head(steps)
             r == Chain_prepend(Tail(steps))
         IN IF h.t = "raise" THEN h
            ELSE IF r.t = "raise" THEN r
            ELSE PyList(r.v \o h.v)
(* The statements of a builder in program order: the first one that raises *)
(* ends the call, otherwise the appended tokens are concatenated *)
RECURSIVE Chain(_)
Chain(steps) ==
    IF steps = <<>> THEN PyList(<<>>)
    ELSE LET h == Head(steps)
             r == Chain(Tail(steps))
         IN IF h.t = "raise" THEN h
            ELSE IF r.t = "raise" THEN r
            ELSE PyList(h.v \o r.v)

build_7z_command(a, dbg) ==
    LET op == get_operation(a)
    IN Chain(<<
         IF op.t = "raise" THEN op ELSE PyList(<<op.v>>),
         PyList(Flag_archive_format(a)),
         PyList(Flag_compression_method(a)),
         PyList(Flag_compression_level(a)),
         PyList(Flag_num_threads(a)),
         PyList(Flag_store_timestamps(a)),
         PyList(Flag_compress_header(a)),
         PyList(Flag_encrypt_header(a)),
         PyList(Flag_solid_block_size(a)),
         PyList(Flag_delete_after_compression(a)),
         PyList(Flag_read_from_stdin(a)),
         PyList(Flag_extract_to_stdout(a)),
         PyList(Flag_verbose(a)),
         PyList(Flag_store_symlinks_as_links(a)),
         PyList(Flag_output_directory(a)),
         PyList(Flag_recurse(a)),
         Flag_include(a, dbg),
         Flag_include_recursive(a, dbg),
         Flag_exclude(a, dbg),
         Flag_exclude_recursive(a, dbg),
         PyList(Flag_ignore_archive_name(a)),
         PyList(Flag_enable_wildcards(a)),
         PyList(Flag_fail_on_bad_file(a)),
         PyList(Flag_overwrite_mode(a)),
         PyList(Flag_show_progress(a)),
         PyList(Flag_assume_yes(a)),
         PyList(Positional_archive(a)),
         PyList(Positional_files(a))
       >>)

--------------------------------------------------------------------------
(* py7z.py: parse_args.  A command line is [opts, pos]: the option        *)
(* occurrences in order, each [opt, val], and the positional strings.      *)
(* argparse reports every error by exiting with status 2.                  *)

StrChoices(S) == {PyStr(c) : c \in S}

Arg(dest, action, type, haschoices, choices, no) ==
    [dest |-> dest, action |-> action, type |-> type, haschoices |-> haschoices,
     choices |-> choices, no |-> no]
StoreTrue(dest) == Arg(dest, "store_true", "none", FALSE, {}, FALSE)
BoolOpt(dest, no) == Arg(dest, "boolean_optional", "none", FALSE, {}, no)
Store(dest, type) == Arg(dest, "store", type, FALSE, {}, FALSE)
StoreChoice(dest, type, choices) == Arg(dest, "store", type, TRUE, choices, FALSE)
AppendArg(dest) == Arg(dest, "append", "str", FALSE, {}, FALSE)

Py7zArguments ==
    ("--add" :> StoreTrue("operation_add")) @@
    ("--extract" :> StoreTrue("operation_extract")) @@
    ("--ls" :> StoreTrue("operation_list")) @@
    ("--list" :> StoreTrue("operation_list")) @@
    ("-t" :> StoreChoice("archive_format", "str", StrChoices(ARCHIVE_FORMATS))) @@
    ("-m" :> StoreChoice("compression_method", "str", StrChoices(COMPRESSION_METHODS))) @@
    ("-c" :> StoreChoice("compression_level", "str", StrChoices(COMPRESSION_LEVELS))) @@
    ("--num-threads" :> Store("num_threads", "thread_count")) @@
    ("--store-timestamps" :>
        StoreChoice("store_timestamps", "timestamps", StrChoices(DOMAIN TIMESTAMPS_LOOKUP))) @@
    ("--compress-header" :> BoolOpt("compress_header", FALSE)) @@
    ("--no-compress-header" :> BoolOpt("compress_header", TRUE)) @@
    ("--encrypt-header" :> BoolOpt("encrypt_header", FALSE)) @@
    ("--no-encrypt-header" :> BoolOpt("encrypt_header", TRUE)) @@
    ("--solid-block-size" :> Store("solid_block_size", "solid_block_size")) @@
    ("--delete-after-compression" :> BoolOpt("delete_after_compression", FALSE)) @@
    ("--no-delete-after-compression" :> BoolOpt("delete_after_compression", TRUE)) @@
    ("--stdin" :> StoreTrue("read_from_stdin")) @@
    ("--stdout" :> StoreTrue("extract_to_stdout")) @@
    ("--progress" :> BoolOpt("show_progress", FALSE)) @@
    ("--no-progress" :> BoolOpt("show_progress", TRUE)) @@
    ("-v" :> Arg("verbose", "count", "none", FALSE, {}, FALSE)) @@
    ("--store-symlinks" :> BoolOpt("store_symlinks_as_links", FALSE)) @@
    ("--no-store-symlinks" :> BoolOpt("store_symlinks_as_links", TRUE)) @@
    ("--out-dir" :> Store("output_directory", "str")) @@
    ("-r" :> BoolOpt("recurse", FALSE)) @@
    ("--no-recurse" :> BoolOpt("recurse", TRUE)) @@
    ("-i" :> AppendArg("include")) @@
    ("-I" :> AppendArg("include_recursive")) @@
    ("-x" :> AppendArg("exclude")) @@
    ("-X" :> AppendArg("exclude_recursive")) @@
    ("--an" :> StoreTrue("ignore_archive_name")) @@
    ("--console-charset" :> StoreChoice("console_charset", "str", StrChoices(CONSOLE_CHARSETS))) @@
    ("--listfile-charset" :>
        StoreChoice("listfile_charset", "str", StrChoices(LISTFILE_CHARSETS))) @@
    ("--wildcards" :> BoolOpt("enable_wildcards", FALSE)) @@
    ("--no-wildcards" :> BoolOpt("enable_wildcards", TRUE)) @@
    ("--fail-on-bad-file" :> StoreTrue("fail_on_bad_file")) @@
    ("--overwrite" :>
        StoreChoice("overwrite_mode", "str", StrChoices(DOMAIN OVERWRITE_MODE_LOOKUP))) @@
    ("-y" :> StoreTrue("assume_yes"))

(* The namespace before any option is seen: store_true defaults to False *)
(* unless default=None is given; everything else defaults to None *)
Py7zDefaults ==
    [operation_add |-> PyBool(FALSE), operation_extract |-> PyBool(FALSE),
     operation_list |-> PyBool(FALSE),
     archive_format |-> None, compression_method |-> None, compression_level |-> None,
     num_threads |-> None, store_timestamps |-> None, compress_header |-> None,
     encrypt_header |-> None, solid_block_size |-> None,
     delete_after_compression |-> None, read_from_stdin |-> None,
     extract_to_stdout |-> None, show_progress |-> None, verbose |-> None,
     store_symlinks_as_links |-> None, output_directory |-> None, recurse |-> None,
     include |-> None, include_recursive |-> None, exclude |-> None,
     exclude_recursive |-> None, ignore_archive_name |-> PyBool(FALSE),
     console_charset |-> None, listfile_charset |-> None, enable_wildcards |-> None,
     fail_on_bad_file |-> PyBool(FALSE), overwrite_mode |-> None, assume_yes |-> None,
     archive |-> None, files |-> None]

OperationGroup == {"operation_add", "operation_extract", "operation_list"}

(* argparse _get_value: the type function applied to the argument string *)
Convert(type, s, order) ==
    CASE type = "thread_count" -> thread_count(s)
      [] type = "timestamps" -> timestamps(s, order)
      [] type = "solid_block_size" -> solid_block_size(s)
      [] OTHER -> PyStr(s)

(* One option occurrence: convert, check the choices, run the action *)
TakeOption(table, ns, item, order) ==
    IF item.opt \notin DOMAIN table THEN Raise("SystemExit")
    ELSE LET a == table[item.opt]
         IN CASE a.action = "store_true" -> [ns EXCEPT ![a.dest] = PyBool(TRUE)]
              [] a.action = "boolean_optional" -> [ns EXCEPT ![a.dest] = PyBool(~a.no)]
              [] a.action = "count" ->
                    [ns EXCEPT ![a.dest] =
                        IF IsNone(ns[a.dest]) THEN PyInt(1) ELSE PyInt(ns[a.dest].v + 1)]
              [] OTHER ->
                    LET value == Convert(a.type, item.val, order)
                    IN IF value.t = "raise" THEN Raise("SystemExit")
                       ELSE IF a.haschoices /\ ~PyIn(value, a.choices) THEN Raise("SystemExit")
                       ELSE IF a.action = "append"
                            THEN [ns EXCEPT ![a.dest] =
                                    IF IsNone(ns[a.dest]) THEN PyList(<<value.v>>)
                                    ELSE PyList(Append(ns[a.dest].v, value.v))]
                            ELSE [ns EXCEPT ![a.dest] = value]

(* A namespace has one field per dest; a raised SystemExit is a value with t *)
IsRaise(r) == "t" \in DOMAIN r

RECURSIVE TakeOptions(_, _, _, _)
TakeOptions(table, ns, opts, order) ==
    IF opts = <<>> THEN ns
    ELSE LET n1 == TakeOption(table, ns, Head(opts), order)
         IN IF IsRaise(n1) THEN n1
            ELSE TakeOptions(table, n1, Tail(opts), order)

parse_args(cmd, order) ==
    LET ns == TakeOptions(Py7zArguments, Py7zDefaults, cmd.opts, order)
    IN IF IsRaise(ns) THEN ns
       ELSE IF Cardinality({d \in OperationGroup : Truthy(ns[d])}) # 1 THEN Raise("SystemExit")
       ELSE IF cmd.pos = <<>> THEN Raise("SystemExit")
       ELSE [ns EXCEPT !.archive = PyStr(Head(cmd.pos)), !.files = PyList(Tail(cmd.pos))]

--------------------------------------------------------------------------
(* py7z_ls.py *)

_nonempty_str(s) == IF Len(s) = 0 THEN Raise("ValueError") ELSE PyStr(s)

LsArguments ==
    ("--tabulate" :> BoolOpt("tabulate", FALSE)) @@
    ("-t" :> BoolOpt("tabulate", FALSE)) @@
    ("--no-tabulate" :> BoolOpt("tabulate", TRUE))

LsDefaults == [tabulate |-> PyBool(FALSE), archive |-> None]

ls_parse_args(cmd, order) ==
    LET ns == TakeOptions(LsArguments, LsDefaults, cmd.opts, order)
    IN IF IsRaise(ns) THEN ns
       ELSE IF Len(cmd.pos) # 1 THEN Raise("SystemExit")
       ELSE LET a == _nonempty_str(cmd.pos[1])
            IN IF a.t = "raise" THEN Raise("SystemExit")
               ELSE [ns EXCEPT !.archive = a]

ls_build_7z_command(a) ==
    LET real == <<(<<"l">>), (<<"-", "b", "d">>), (<<"-", "b", "s", "o", "0">>),
                  (<<"-", "b", "s", "p", "0">>)>>
                \o (IF ~Truthy(a.tabulate) THEN <<(<<"-", "b", "a">>)>> ELSE <<>>)
    IN PyList(real \o <<(<<"-", "-">>), a.archive.v>>)

--------------------------------------------------------------------------
(* py7z_hash.py *)

HASH_ALGORITHM_SHA256 == <<"s", "h", "a", "2", "5", "6">>
HASH_ALGORITHMS ==
    {<<"b", "l", "a", "k", "e", "2", "s", "p">>, <<"c", "r", "c", "3", "2">>,
     <<"c", "r", "c", "6", "4">>, <<"m", "d", "5">>, <<"s", "h", "a", "1">>,
     HASH_ALGORITHM_SHA256, <<"s", "h", "a", "3", "8", "4">>,
     <<"s", "h", "a", "5", "1", "2">>, <<"s", "h", "a", "3", "-", "2", "5", "6">>,
     <<"x", "x", "h", "6", "4">>}

HashArguments ==
    ("-a" :> StoreChoice("hash_algorithm", "str", StrChoices(HASH_ALGORITHMS))) @@
    ("-v" :> BoolOpt("verbose", FALSE)) @@
    ("--no-verbose" :> BoolOpt("verbose", TRUE)) @@
    ("-p" :> BoolOpt("show_progress", FALSE)) @@
    ("--no-progress" :> BoolOpt("show_progress", TRUE)) @@
    ("-c" :> StoreTrue("hash_archive_contents"))

HashDefaults ==
    [hash_algorithm |-> PyStr(HASH_ALGORITHM_SHA256), verbose |-> PyBool(FALSE),
     show_progress |-> PyBool(FALSE), hash_archive_contents |-> PyBool(FALSE),
     files |-> None]

hash_parse_args(cmd, order) ==
    LET ns == TakeOptions(HashArguments, HashDefaults, cmd.opts, order)
    IN IF IsRaise(ns) THEN ns
       ELSE [ns EXCEPT !.files = PyList(cmd.pos)]


hash_build_7z_command_more_than_one(a) ==
    IF Truthy(a.hash_archive_contents) /\ Len(a.files.v) > 1 THEN Raise("SystemExit")
    ELSE PyList(
           (IF Truthy(a.hash_archive_contents)
            THEN <<(<<"t">>), (<<"-", "s", "l", "t">>)>> ELSE <<(<<"h">>)>>)
           \o (IF ~Truthy(a.verbose) THEN <<(<<"-", "b", "a">>)>> ELSE <<>>)
           \o (IF ~Truthy(a.show_progress)
               THEN <<(<<"-", "b", "d">>), (<<"-", "b", "s", "p", "0">>)>> ELSE <<>>)
           \o <<(<<"-", "s", "c", "r", "c">> \o a.hash_algorithm.v)>>
           \o (IF Len(a.files.v) = 0 THEN <<(<<"-", "s", "i">>)>>
               ELSE <<(<<"-", "-">>)>> \o a.files.v))
(* exit(1) inside the builder raises SystemExit before anything is returned *)
hash_build_7z_command(a) ==
    IF Truthy(a.hash_archive_contents) /\ Len(a.files.v) # 1 THEN Raise("SystemExit")
    ELSE PyList(
           (IF Truthy(a.hash_archive_contents)
            THEN <<(<<"t">>), (<<"-", "s", "l", "t">>)>> ELSE <<(<<"h">>)>>)
           \o (IF ~Truthy(a.verbose) THEN <<(<<"-", "b", "a">>)>> ELSE <<>>)
           \o (IF ~Truthy(a.show_progress)
               THEN <<(<<"-", "b", "d">>), (<<"-", "b", "s", "p", "0">>)>> ELSE <<>>)
           \o <<(<<"-", "s", "c", "r", "c">> \o a.hash_algorithm.v)>>
           \o (IF Len(a.files.v) = 0 THEN <<(<<"-", "s", "i">>)>>
               ELSE <<(<<"-", "-">>)>> \o a.files.v))

--------------------------------------------------------------------------
(* common.py / py7z.py: exec_7z.  env is the value of PY7Z_7Z_PATH *)

get_7z_path(env) == env

exec_7z(vector, env) ==
    LET exe_path == IF IsNone(get_7z_path(env)) THEN <<"7", "z">> ELSE get_7z_path(env).v
    IN [func |-> IF IsNone(get_7z_path(env)) THEN "execvp" ELSE "execv",
        path |-> exe_path, argv |-> <<exe_path>> \o vector]

--------------------------------------------------------------------------
(* The explored inputs *)

Tools == {"py7z", "py7z_ls", "py7z_hash"}

sArchive == <<"a", ".", "7", "z">>
sF == <<"f">>
sDashBd == <<"-", "b", "d">>
sFoo == <<"f", "o", "o">>
sAtList == <<"@", "l">>
sOut == <<"o", "u", "t">>
s7z == <<"7", "z">>
sLzma2 == <<"l", "z", "m", "a", "2">>
sWin == <<"w", "i", "n">>
sUtf8 == <<"u", "t", "f", "-", "8">>

FileNames == {sF, sDashBd}
Patterns == {sFoo, sAtList}

(* set iteration orders of a run (hash randomisation) *)
TimestampOrders ==
    {<<sAccess, sCreation, sModified>>, <<sAccess, sModified, sCreation>>,
     <<sCreation, sAccess, sModified>>, <<sCreation, sModified, sAccess>>,
     <<sModified, sAccess, sCreation>>, <<sModified, sCreation, sAccess>>}

Envs == {None, PyStr(<<"/", "7", "z", "z">>)}

I(o, v) == [opt |-> o, val |-> v]
F(o) == [opt |-> o, val |-> <<>>]

Py7zItems ==
    {I("-t", s7z), I("-t", <<"r", "a", "r">>),
     I("--num-threads", <<"O", "N">>), I("--num-threads", <<"-", "1">>),
     I("--num-threads", <<"x">>),
     I("--store-timestamps", sAccess),
     I("--store-timestamps", <<"A", "C", "C", "E", "S", "S">> \o <<",">> \o sModified),
     I("--store-timestamps", sAccess \o <<",">> \o sAccess),
     I("--store-timestamps", sAccess \o <<",", "b", "o", "g", "u", "s">>),
     F("--compress-header"), F("--no-compress-header"),
     I("--solid-block-size", <<"S", "O", "L", "I", "D">>),
     I("--solid-block-size", <<"1", "2", "8", "M">>),
     I("--solid-block-size", <<"x", "y", "z">>),
     F("--stdin"), F("--progress"), F("--no-progress"),
     I("--out-dir", sOut), F("-r"), F("--no-recurse"),
     I("-i", sFoo), I("-i", sAtList), I("-i", <<>>),
     I("-I", sFoo), I("-x", sFoo), I("-X", sAtList),
     F("--an"), I("--console-charset", sWin), F("--no-wildcards"),
     I("--overwrite", sYes), F("-y"), F("--bogus")}

OperationSelections ==
    {<<>>, <<F("--add")>>, <<F("--extract")>>, <<F("--list")>>,
     <<F("--add"), F("--extract")>>}

Verbose(n) == [i \in 1..n |-> F("-v")]

LsItems == {F("--tabulate"), F("-t"), F("--no-tabulate"), F("--bogus")}

HashItems ==
    {I("-a", <<"m", "d", "5">>), I("-a", sFoo), F("-v"), F("--no-verbose"), F("-p"),
     F("--no-progress"), F("-c")}

CommandLines(tl) ==
    CASE tl = "py7z" ->
           {[opts |-> o \o Verbose(n) \o x, pos |-> p] :
                o \in OperationSelections, n \in 0..MaxVerbose,
                x \in SeqsUpTo(Py7zItems, MaxOpts),
                p \in {<<>>, <<sDashBd>>} \cup {<<sArchive>> \o fs : fs \in SeqsUpTo({sF}, MaxFiles)}}
      [] tl = "py7z_ls" ->
           {[opts |-> x, pos |-> p] :
                x \in SeqsUpTo(LsItems, MaxOpts + 1),
                p \in {<<>>, <<(<<>>)>>, <<sArchive>>, <<sArchive, sF>>}}
      [] OTHER ->
           {[opts |-> x, pos |-> p] :
                x \in SeqsUpTo(HashItems, MaxOpts + 1), p \in SeqsUpTo(FileNames, MaxFiles)}

(* Option models handed to the py7z builder directly: what parse_args can *)
(* store in each dest, at most MaxSet of them set *)
PatternLists == {<<p>> : p \in Patterns} \cup {<<sFoo, sAtList>>}
BuilderFileLists == {<<>>, <<sF>>, <<sDashBd, sF>>}

FieldValues ==
    [archive_format |-> {PyStr(s7z)},
     compression_method |-> {PyStr(sLzma2)},
     compression_level |-> {PyStr(<<"9">>)},
     num_threads |-> {PyStr(<<"o", "n">>), PyStr(<<"4">>)},
     store_timestamps |-> {PyTuple(<<sAccess>>), PyTuple(<<sAccess, sModified>>),
                           PyTuple(<<sModified, sAccess>>)},
     compress_header |-> {PyBool(TRUE), PyBool(FALSE)},
     encrypt_header |-> {PyBool(TRUE), PyBool(FALSE)},
     solid_block_size |-> {PyStr(<<"o", "f", "f">>), PyStr(<<"1", "2", "8", "m">>)},
     delete_after_compression |-> {PyBool(TRUE), PyBool(FALSE)},
     read_from_stdin |-> {PyBool(TRUE)},
     extract_to_stdout |-> {PyBool(TRUE)},
     show_progress |-> {PyBool(TRUE), PyBool(FALSE)},
     verbose |-> {PyInt(1), PyInt(MaxVerbose)},
     store_symlinks_as_links |-> {PyBool(TRUE), PyBool(FALSE)},
     output_directory |-> {PyStr(sOut)},
     recurse |-> {PyBool(TRUE), PyBool(FALSE)},
     include |-> {PyList(l) : l \in PatternLists},
     include_recursive |-> {PyList(l) : l \in PatternLists},
     exclude |-> {PyList(l) : l \in PatternLists},
     exclude_recursive |-> {PyList(l) : l \in PatternLists},
     ignore_archive_name |-> {PyBool(TRUE)},
     console_charset |-> {PyStr(sWin)},
     listfile_charset |-> {PyStr(sUtf8)},
     enable_wildcards |-> {PyBool(TRUE), PyBool(FALSE)},
     fail_on_bad_file |-> {PyBool(TRUE)},
     overwrite_mode |-> {PyStr(sYes), PyStr(sSkipExisting)},
     assume_yes |-> {PyBool(TRUE)}]

Settings == UNION {{<<f, v>> : v \in FieldValues[f]} : f \in DOMAIN FieldValues}

RECURSIVE Models(_)
Models(k) ==
    IF k = 0 THEN {Py7zDefaults}
    ELSE LET M == Models(k - 1)
         IN M \cup {[m EXCEPT ![s[1]] = s[2]] : m \in M, s \in Settings}

--------------------------------------------------------------------------
(* main() of each tool: parse_args, then build_7z_command, then exec_7z.   *)
(* An argparse error exits with status 2, an uncaught exception or exit(1) *)
(* with status 1; a successful exec replaces the process.                  *)

Init ==
    /\ tool \in Tools
    /\ debug \in BOOLEAN
    /\ argv \in CommandLines(tool)
    /\ pc = "start"
    /\ args = None
    /\ real_args = None
    /\ exec_calls = 0
    /\ exec_argv = None
    /\ status = None

Parsed(r) ==
    /\ IF IsRaise(r)
       THEN pc' = "exited" /\ status' = PyInt(2) /\ args' = args
       ELSE pc' = "parsed" /\ status' = status /\ args' = r
    /\ UNCHANGED <<tool, debug, argv, real_args, exec_calls, exec_argv>>

Built(r) ==
    /\ IF r.t = "raise"
       THEN pc' = "exited" /\ status' = PyInt(1) /\ real_args' = real_args
       ELSE pc' = "built" /\ status' = status /\ real_args' = r
    /\ UNCHANGED <<tool, debug, argv, args, exec_calls, exec_argv>>

ParsePy7z ==
    /\ pc = "start" /\ tool = "py7z"
    /\ \E order \in TimestampOrders : Parsed(parse_args(argv, order))

BuildPy7z ==
    /\ pc = "parsed" /\ tool = "py7z"
    /\ Built(build_7z_command(args, debug))

ParseLs ==
    /\ pc = "start" /\ tool = "py7z_ls"
    /\ \E order \in TimestampOrders : Parsed(ls_parse_args(argv, order))

BuildLs ==
    /\ pc = "parsed" /\ tool = "py7z_ls"
    /\ Built(ls_build_7z_command(args))

ParseHash ==
    /\ pc = "start" /\ tool = "py7z_hash"
    /\ \E order \in TimestampOrders : Parsed(hash_parse_args(argv, order))

BuildHash ==
    /\ pc = "parsed" /\ tool = "py7z_hash"
    /\ Built(hash_build_7z_command(args))


ExecEnabled_after_parse == pc \in {"parsed", "built"}
(* exec_7z is the statement after build_7z_command returns *)
ExecEnabled == pc = "built"

Exec ==
    /\ ExecEnabled
    /\ \E env \in Envs, ok \in BOOLEAN :
          /\ exec_calls' = exec_calls + 1
          /\ exec_argv' = exec_7z(real_args.v, env)
          /\ IF ok THEN pc' = "replaced" /\ status' = status
                   ELSE pc' = "exited" /\ status' = PyInt(1)
    /\ UNCHANGED <<tool, debug, argv, args, real_args>>

Next == ParsePy7z \/ BuildPy7z \/ ParseLs \/ BuildLs \/ ParseHash \/ BuildHash \/ Exec

Spec == Init /\ [][Next]_vars

(* The py7z builder applied to option models *)
InitBuilder ==
    /\ tool = "py7z"
    /\ debug \in BOOLEAN
    /\ argv = None
    /\ pc = "parsed"
    /\ \E m \in Models(MaxSet), o \in OperationGroup, fs \in BuilderFileLists :
          args = [m EXCEPT ![o] = PyBool(TRUE), !.archive = PyStr(sArchive),
                           !.files = PyList(fs)]
    /\ real_args = None
    /\ exec_calls = 0
    /\ exec_argv = None
    /\ status = None

NextBuilder == BuildPy7z

SpecBuilder == InitBuilder /\ [][NextBuilder]_vars

--------------------------------------------------------------------------
(* Vocabulary of the properties *)

IsNamespace(a) == "t" \notin DOMAIN a
Py7zBuilt == tool = "py7z" /\ pc = "built"

(* the tokens between the operation token and the archive path *)
EmittedFlags == SubSeq(real_args.v, 2, Len(real_args.v) - Len(args.files.v) - 1)

OperationToken ==
    IF PyEq(args.operation_add, PyBool(TRUE)) THEN <<"a">>
    ELSE IF PyEq(args.operation_extract, PyBool(TRUE)) THEN <<"x">>
    ELSE <<"l">>

AllOptionsAbsent == \A f \in DOMAIN FieldValues : PyEq(args[f], Py7zDefaults[f])

(* position of an option in the canonical order, and of a flag token *)
FieldRank ==
    [archive_format |-> 1, compression_method |-> 2, compression_level |-> 3,
     num_threads |-> 4, store_timestamps |-> 5, compress_header |-> 6,
     encrypt_header |-> 7, solid_block_size |-> 8, delete_after_compression |-> 9,
     read_from_stdin |-> 10, extract_to_stdout |-> 11, verbose |-> 12,
     store_symlinks_as_links |-> 13, output_directory |-> 14, recurse |-> 15,
     include |-> 16, include_recursive |-> 17, exclude |-> 18, exclude_recursive |-> 19,
     ignore_archive_name |-> 20, enable_wildcards |-> 21, fail_on_bad_file |-> 22,
     overwrite_mode |-> 23, show_progress |-> 24, assume_yes |-> 25]

FlagRank(tok) ==
    IF HasPrefix(tok, <<"-", "m", "m", "t", "=">>) THEN 4
    ELSE IF HasPrefix(tok, <<"-", "m", "m", "=">>) THEN 2
    ELSE IF HasPrefix(tok, <<"-", "m", "x", "=">>) THEN 3
    ELSE IF HasPrefix(tok, <<"-", "m", "h", "c", "=">>) THEN 6
    ELSE IF HasPrefix(tok, <<"-", "m", "h", "e", "=">>) THEN 7
    ELSE IF HasPrefix(tok, <<"-", "m", "s", "=">>) THEN 8
    ELSE IF HasPrefix(tok, <<"-", "m", "t">>) /\ Len(tok) = 7
            /\ Tail2(tok, 5) = <<"=", "o", "n">> THEN 5
    ELSE IF tok = <<"-", "s", "d", "e", "l">> THEN 9
    ELSE IF tok = <<"-", "s", "i">> THEN 10
    ELSE IF tok = <<"-", "s", "o">> THEN 11
    ELSE IF HasPrefix(tok, <<"-", "b", "b">>) THEN 12
    ELSE IF tok = <<"-", "s", "n", "l">> THEN 13
    ELSE IF tok \in {<<"-", "r">>, <<"-", "r", "-">>} THEN 15
    ELSE IF HasPrefix(tok, <<"-", "i", "r">>) THEN 17
    ELSE IF HasPrefix(tok, <<"-", "i">>) THEN 16
    ELSE IF HasPrefix(tok, <<"-", "x", "r">>) THEN 19
    ELSE IF HasPrefix(tok, <<"-", "x">>) THEN 18
    ELSE IF tok = <<"-", "a", "n">> THEN 20
    ELSE IF tok = <<"-", "s", "p", "d">> THEN 21
    ELSE IF tok = <<"-", "s", "s", "e">> THEN 22
    ELSE IF HasPrefix(tok, <<"-", "a", "o">>) THEN 23
    ELSE IF tok = sDashBd THEN 24
    ELSE IF tok = <<"-", "y">> THEN 25
    ELSE IF HasPrefix(tok, <<"-", "t">>) THEN 1
    ELSE IF HasPrefix(tok, <<"-", "o">>) THEN 14
    ELSE 0

IsPlainInclude(tok) == FlagRank(tok) = 16
IsPlainExclude(tok) == FlagRank(tok) = 18
ExpectedPattern(p) == IF p[1] = "@" THEN p ELSE <<"!">> \o p

--------------------------------------------------------------------------
(* Properties *)

\* C1 (as stated): "-bd" is a token of the vector returned by py7z.build_7z_command
\* if and only if show_progress is explicitly False.
C1_DashBdInVectorIffFalse ==
    Py7zBuilt => ((sDashBd \in Range(real_args.v)) <=> PyEq(args.show_progress, PyBool(FALSE)))

\* C1 (amended): the builder emits the flag token "-bd", among the tokens between the
\* operation token and the archive path, if and only if show_progress is explicitly
\* False; with the other fields equal, the unset and the explicitly-false option
\* models never give the same vector.
C1_ProgressDisableFlag ==
    Py7zBuilt =>
      /\ (sDashBd \in Range(EmittedFlags)) <=> PyEq(args.show_progress, PyBool(FALSE))
      /\ IsNone(args.show_progress) =>
            real_args.v # build_7z_command([args EXCEPT !.show_progress = PyBool(FALSE)], debug).v

C1_Witness ==
    /\ Py7zBuilt
    /\ PyEq(args.show_progress, PyBool(FALSE))
    /\ sDashBd \in Range(EmittedFlags)
    /\ sDashBd \notin Range(args.files.v)

\* C2: with every optional field absent, py7z.build_7z_command returns exactly
\* [operation token, archive path] followed by the file arguments.
C2_AbsentOptionsEmitNothing ==
    (Py7zBuilt /\ AllOptionsAbsent) =>
        real_args.v = <<OperationToken, args.archive.v>> \o args.files.v

C2_Witness ==
    /\ Py7zBuilt /\ AllOptionsAbsent
    /\ PyEq(args.operation_extract, PyBool(TRUE))
    /\ args.files.v = <<>>
    /\ real_args.v = <<(<<"x">>), sArchive>>

\* C3: the returned vector is the operation token, then the flag tokens of the present
\* options in the canonical order (no token of a later option before a token of an
\* earlier one), then the archive path, then the file arguments as supplied.
C3_CanonicalOrder ==
    Py7zBuilt =>
      LET vec == real_args.v
          nf == Len(args.files.v)
          flags == EmittedFlags
      IN /\ Len(vec) >= nf + 2
         /\ vec[1] = OperationToken
         /\ vec[Len(vec) - nf] = args.archive.v
         /\ Tail2(vec, Len(vec) - nf + 1) = args.files.v
         /\ \A i \in DOMAIN flags :
               \E f \in DOMAIN FieldRank :
                  FieldRank[f] = FlagRank(flags[i]) /\ ~PyEq(args[f], Py7zDefaults[f])
         /\ \A i, j \in DOMAIN flags : i < j => FlagRank(flags[i]) <= FlagRank(flags[j])

C3_Witness ==
    /\ Py7zBuilt
    /\ ~IsNone(args.archive_format)
    /\ PyEq(args.show_progress, PyBool(FALSE))
    /\ Len(args.files.v) = 2
    /\ Len(EmittedFlags) = 2
    /\ FlagRank(EmittedFlags[1]) = 1 /\ FlagRank(EmittedFlags[2]) = 24

\* C4: with hash_archive_contents set, py7z_hash.build_7z_command returns a vector if and
\* only if exactly one file is given, and it begins with "t", "-slt"; with any other
\* count the run ends with status 1, no vector is returned and exec_7z is not called.
C4_ArchiveContentsNeedsOneFile ==
    (tool = "py7z_hash" /\ pc \notin {"start", "parsed"} /\ IsNamespace(args)
        /\ Truthy(args.hash_archive_contents)) =>
      IF Len(args.files.v) = 1
      THEN /\ real_args.t = "list"
           /\ SubSeq(real_args.v, 1, 2) = <<(<<"t">>), (<<"-", "s", "l", "t">>)>>
      ELSE /\ pc = "exited" /\ PyEq(status, PyInt(1))
           /\ IsNone(real_args) /\ exec_calls = 0 /\ IsNone(exec_argv)

C4_Witness ==
    /\ tool = "py7z_hash" /\ pc = "exited" /\ IsNamespace(args)
    /\ Truthy(args.hash_archive_contents)
    /\ Len(args.files.v) = 2
    /\ PyEq(status, PyInt(1)) /\ exec_calls = 0

\* C5: in a run of main, exec_7z is called at most once, only when build_7z_command has
\* returned its vector and nothing has failed, and it is handed exactly that vector.
C5_ExecOnlyAfterBuild ==
    [][exec_calls' # exec_calls =>
          /\ exec_calls = 0 /\ exec_calls' = 1
          /\ pc = "built" /\ IsNone(status)
          /\ real_args.t = "list"
          /\ exec_argv'.argv = <<exec_argv'.path>> \o real_args.v]_vars

C5_Witness ==
    /\ exec_calls = 1 /\ pc = "replaced"
    /\ real_args.t = "list"
    /\ exec_argv.argv = <<exec_argv.path>> \o real_args.v

\* C6: for non-empty patterns given as recursive include or recursive exclude,
\* py7z.build_7z_command completes without error and emits "-ir" / "-xr" followed by the
\* pattern ("!" put before a pattern that does not begin with "@"), one per pattern.
C6_RecursivePatternsAccepted ==
    (tool = "py7z" /\ pc \notin {"start", "parsed"} /\ IsNamespace(args)
        /\ \A f \in {"include", "include_recursive", "exclude", "exclude_recursive"} :
              ~IsNone(args[f]) => \A i \in DOMAIN args[f].v : args[f].v[i] # <<>>) =>
      /\ ~IsNone(args.include_recursive) =>
            /\ real_args.t = "list"
            /\ \A i \in DOMAIN args.include_recursive.v :
                  (<<"-", "i", "r">> \o ExpectedPattern(args.include_recursive.v[i]))
                      \in Range(real_args.v)
      /\ ~IsNone(args.exclude_recursive) =>
            /\ real_args.t = "list"
            /\ \A i \in DOMAIN args.exclude_recursive.v :
                  (<<"-", "x", "r">> \o ExpectedPattern(args.exclude_recursive.v[i]))
                      \in Range(real_args.v)

\* C7: for non-empty patterns given as plain include or exclude, the emitted tokens are,
\* in order, "-i" (resp. "-x") followed by "!" and the pattern, or by the pattern
\* unchanged when it begins with "@".
C7_PlainPatternTokens ==
    Py7zBuilt =>
      /\ ~IsNone(args.include) =>
            SelectSeq(EmittedFlags, IsPlainInclude) =
               [i \in DOMAIN args.include.v |-> <<"-", "i">> \o ExpectedPattern(args.include.v[i])]
      /\ ~IsNone(args.exclude) =>
            SelectSeq(EmittedFlags, IsPlainExclude) =
               [i \in DOMAIN args.exclude.v |-> <<"-", "x">> \o ExpectedPattern(args.exclude.v[i])]

C7_Witness ==
    /\ Py7zBuilt
    /\ PyEq(args.include, PyList(<<sFoo, sAtList>>))
    /\ SelectSeq(EmittedFlags, IsPlainInclude) =
          <<(<<"-", "i", "!", "f", "o", "o">>), (<<"-", "i", "@", "l">>)>>

\* C8: for n >= 1 occurrences of -v, the vector built from the parsed command line
\* contains "-bb" followed by min(n, 3), and no verbosity token above 3.
VerboseCount == Cardinality({i \in DOMAIN argv.opts : argv.opts[i].opt = "-v"})
C8_VerbosityClamped ==
    (Py7zBuilt /\ VerboseCount >= 1) =>
      /\ (<<"-", "b", "b">> \o IntToStr(verbosity_level(VerboseCount))) \in Range(EmittedFlags)
      /\ \A i \in DOMAIN EmittedFlags :
            FlagRank(EmittedFlags[i]) = 12 =>
               EmittedFlags[i] \in {<<"-", "b", "b">> \o IntToStr(k) : k \in 0..3}

\* C9: a --store-timestamps list whose tokens are all access, creation or modified
\* (any case) is accepted by parse_args and gives one "-mt<a|c|m>=on" token per distinct
\* timestamp; a list with any other token is rejected.
TimestampItems == {i \in DOMAIN argv.opts : argv.opts[i].opt = "--store-timestamps"}
TimestampNames(i) == Range(Split(Lower(argv.opts[i].val), ","))
OnlyTimestampsCanFail ==
    /\ argv.pos # <<>>
    /\ Cardinality({argv.opts[i].opt : i \in DOMAIN argv.opts} \cap {"--add", "--extract", "--list"}) = 1
    /\ \A i \in DOMAIN argv.opts :
          argv.opts[i].opt \in {"--add", "--extract", "--list", "-v", "--store-timestamps"}
C9_TimestampListsAccepted ==
    (tool = "py7z" /\ pc # "start" /\ OnlyTimestampsCanFail /\ TimestampItems # {}) =>
      IF \A i \in TimestampItems : TimestampNames(i) \subseteq DOMAIN TIMESTAMPS_LOOKUP
      THEN /\ IsNamespace(args)
           /\ pc = "built" =>
                LET last == CHOOSE i \in TimestampItems : \A j \in TimestampItems : j <= i
                IN /\ \A t \in TimestampNames(last) :
                         <<"-", "m", "t", TIMESTAMPS_LOOKUP[t], "=", "o", "n">> \in Range(EmittedFlags)
                   /\ Cardinality({k \in DOMAIN EmittedFlags : FlagRank(EmittedFlags[k]) = 5})
                         = Cardinality(TimestampNames(last))
      ELSE pc = "exited" /\ PyEq(status, PyInt(2))

====
